---- MODULE Spec2Model ----
(***************************************************************************)
(* Model of gui/process_manager.py: close_antigravity (the three-phase     *)
(* shutdown of the target application's processes) and start_antigravity   *)
(* (the launcher with its URI / executable-path fallback); and of          *)
(* gui/db_manager.py: backup_account and restore_account on the ItemTable  *)
(* of the application's state databases.                                   *)
(*                                                                         *)
(* Time is counted in ticks of a quarter time-unit, so that a timeout that *)
(* is no multiple of the 0.5 poll interval is among the inputs:            *)
(* time.sleep(0.5) is two ticks.                                           *)
(* Strings are sequences of one-character strings so that lower(),         *)
(* `in` (substring) and endswith() are computed as Python computes them.   *)
(***************************************************************************)
EXTENDS Integers, Sequences, FiniteSets, TLC

\* ------------------------------------------------------------------ bounds
MaxPid == 3
MaxTimeout == 3
MaxDepth == 3

\* --------------------------------------------------------- program constants
SelfPid == 1
PollTicks == 2
GracefulSettleTicks == 8
FinalSettleTicks == 4

Pids == 1..MaxPid
OtherPids == Pids \ {SelfPid}
Timeouts == 0..MaxTimeout
Platforms == {"Darwin", "Windows", "Linux", "FreeBSD"}

\* ------------------------------------------------------------------ strings
LowerChar(c) ==
  CASE c = "A" -> "a" [] c = "B" -> "b" [] c = "C" -> "c" [] c = "D" -> "d"
    [] c = "E" -> "e" [] c = "F" -> "f" [] c = "G" -> "g" [] c = "H" -> "h"
    [] c = "I" -> "i" [] c = "J" -> "j" [] c = "K" -> "k" [] c = "L" -> "l"
    [] c = "M" -> "m" [] c = "N" -> "n" [] c = "O" -> "o" [] c = "P" -> "p"
    [] c = "Q" -> "q" [] c = "R" -> "r" [] c = "S" -> "s" [] c = "T" -> "t"
    [] c = "U" -> "u" [] c = "V" -> "v" [] c = "W" -> "w" [] c = "X" -> "x"
    [] c = "Y" -> "y" [] c = "Z" -> "z" [] OTHER -> c

Lower(s) == [k \in 1..Len(s) |-> LowerChar(s[k])]

\* Python's `sub in s` on strings.
Contains(sub, s) ==
  \E k \in 1..(Len(s) - Len(sub) + 1) : SubSeq(s, k, k + Len(sub) - 1) = sub

\* Python's s.endswith(suf).
EndsWith(s, suf) ==
  /\ Len(s) >= Len(suf)
  /\ SubSeq(s, Len(s) - Len(suf) + 1, Len(s)) = suf

\* None and "" are both falsy in `x.lower() if x else ""`: one value stands for both.
NoneStr == <<>>

S_antigravity_app == <<"a", "n", "t", "i", "g", "r", "a", "v", "i", "t", "y", ".", "a", "p", "p">>
S_antigravity_exe == <<"a", "n", "t", "i", "g", "r", "a", "v", "i", "t", "y", ".", "e", "x", "e">>
S_antigravity == <<"a", "n", "t", "i", "g", "r", "a", "v", "i", "t", "y">>
S_manager == <<"m", "a", "n", "a", "g", "e", "r">>
S_seg == <<"/", "a", "n", "t", "i", "g", "r", "a", "v", "i", "t", "y", "/">>
S_end == <<"/", "a", "n", "t", "i", "g", "r", "a", "v", "i", "t", "y">>

\* os.path.dirname(os.path.abspath(sys.executable)).lower()
CurrentDir == <<"/", "o", "p", "t", "/", "m", "g", "r">>

\* Entries of the process table (proc.info['name'], proc.info['exe']).
N_win == <<"A", "n", "t", "i", "g", "r", "a", "v", "i", "t", "y", ".", "e", "x", "e">>
E_win == <<"C", ":", "\\", "A", "n", "t", "i", "g", "r", "a", "v", "i", "t", "y", "\\", "A", "n", "t", "i", "g", "r", "a", "v", "i", "t", "y", ".", "e", "x", "e">>
N_mac == <<"E", "l", "e", "c", "t", "r", "o", "n">>
E_mac == <<"/", "A", "p", "p", "s", "/", "A", "n", "t", "i", "g", "r", "a", "v", "i", "t", "y", ".", "a", "p", "p", "/", "E", "l", "e", "c", "t", "r", "o", "n">>
N_linux == <<"a", "n", "t", "i", "g", "r", "a", "v", "i", "t", "y">>
E_linux == <<"/", "u", "s", "r", "/", "s", "h", "a", "r", "e", "/", "a", "n", "t", "i", "g", "r", "a", "v", "i", "t", "y", "/", "a", "n", "t", "i", "g", "r", "a", "v", "i", "t", "y">>
N_cap == <<"A", "n", "t", "i", "g", "r", "a", "v", "i", "t", "y">>
N_mgr == <<"A", "n", "t", "i", "g", "r", "a", "v", "i", "t", "y", " ", "M", "a", "n", "a", "g", "e", "r", ".", "e", "x", "e">>
E_mgr == <<"D", ":", "\\", "A", "n", "t", "i", "g", "r", "a", "v", "i", "t", "y", "\\", "t", "o", "o", "l", ".", "e", "x", "e">>
E_bundled == <<"/", "o", "p", "t", "/", "m", "g", "r", "/", "a", "n", "t", "i", "g", "r", "a", "v", "i", "t", "y">>

\* What the caller's own process can look like in the table: its executable
\* under the installation directory, or unreadable (exe None) with a matching name.
SelfKinds ==
  { [name |-> N_linux, exe |-> E_bundled],
    [name |-> N_cap,   exe |-> NoneStr] }

\* What the other processes of the table look like: the application on
\* Linux, its macOS bundle, a companion "manager" tool, the Windows
\* executable, and a binary shipped in the caller's installation directory.
OtherKinds ==
  << [name |-> N_linux, exe |-> E_linux],
     [name |-> N_mac,   exe |-> E_mac],
     [name |-> N_mgr,   exe |-> E_mgr],
     [name |-> N_win,   exe |-> E_win],
     [name |-> N_linux, exe |-> E_bundled] >>

\* The process tables the model starts from: the caller's own entry, and
\* the other pids holding consecutive kinds from some point of OtherKinds.
Tables ==
  { [p \in Pids |-> IF p = SelfPid THEN sk
                    ELSE OtherKinds[((p + r) % Len(OtherKinds)) + 1]] :
      sk \in SelfKinds, r \in 1..Len(OtherKinds) }

VARIABLES
  system,            \* platform.system()
  info,              \* pid -> [name, exe] as psutil reports it
  status,            \* pid -> "unborn" | "running" | "exited"
  c_pc,              \* position inside close_antigravity
  timeout,           \* argument, in ticks
  force_kill,        \* argument
  target_processes,  \* the termination set, a list of pids
  still_running,     \* list of the last wait-loop poll, or UNBOUND
  final_check,       \* list built by the final check
  i,                 \* index of the for loop in progress
  now,               \* time.time(), in ticks
  start_time,        \* start of the wait loop, -1 before it is taken
  ret,               \* "None" while running, then "True" / "False"
  repeated,          \* an earlier call of close_antigravity has returned
  gracefulOutcome,   \* outcome of the osascript / taskkill helper in this call
  phases,            \* phases entered by this call, in order
  terminated,        \* pids terminate() was called on in this call
  killed,            \* pids kill() was called on in this call
  touched,           \* pids is_running() / terminate() / kill() was called on
  polls,             \* completed liveness polls of the wait loop
  lateExit,          \* pids that exited once the timeout had elapsed
  aliveAtTimeout,    \* members of the set running when the timeout elapsed
  spawned,           \* pids started after the scan of this call
  internalError,     \* the outer `except Exception` produced the result
  observed,          \* per pid, the last is_running() answer after the terminate loop
  s_pc,              \* position inside the innermost start_antigravity
  s_stack,           \* use_uri of the active invocations, innermost last
  s_val,             \* value being returned by the innermost invocation
  s_ret,             \* "None", then the top-level call's "True" / "False"
  s_repeated,        \* an earlier top-level call has returned
  s_inv,             \* one record per invocation of this top-level call
  s_openUri,         \* calls of open_uri in this top-level call
  s_dispatched,      \* launch commands dispatched in this top-level call
  db_paths,          \* what get_antigravity_db_paths() returns
  fs,                \* file name -> [exists, rows]: the ItemTable as stored
  doc,               \* the file at backup_file_path: [kind, obj]
  b_ret,             \* "None", then the last backup_account's "True" / "False"
  d_pc,              \* position inside restore_account
  backup_data,       \* the document as json.load returned it
  r_idx,             \* index of the loop over db_paths
  r_sibling,         \* the candidate is the '.vscdb.backup' sibling
  r_key,             \* index of the loop over KEYS_TO_BACKUP
  txn,               \* the ItemTable as the open connection sees it
  r_done,            \* keys upserted so far on the open connection
  success_count,     \* restore_account's counter
  r_ret,             \* "None", then the last restore_account's "True" / "False"
  snap,              \* rows of the primary database at the last good backup
  fromBackup,        \* doc is what the last good backup wrote
  pre,               \* fs when the last restore_account was called
  attempted,         \* candidates handed to _restore_single_db in this call
  committed,         \* candidates whose batch was committed in this call
  failed,            \* candidates for which _restore_single_db returned False
  lost               \* candidates closed with upserts executed, not committed

closeVars ==
  << system, info, status, c_pc, timeout, force_kill, target_processes,
     still_running, final_check, i, now, start_time, ret, repeated,
     gracefulOutcome, phases, terminated, killed, touched, polls, lateExit,
     aliveAtTimeout, spawned, internalError, observed >>

startVars ==
  << s_pc, s_stack, s_val, s_ret, s_repeated, s_inv, s_openUri, s_dispatched >>

dbVars ==
  << db_paths, fs, doc, b_ret, d_pc, backup_data, r_idx, r_sibling, r_key, txn,
     r_done, success_count, r_ret, snap, fromBackup, pre, attempted, committed,
     failed, lost >>

vars == << closeVars, startVars, dbVars >>

\* still_running before its first assignment (pids are >= 1).
UNBOUND == <<0>>

\* ------------------------------------------------------- the target predicate
\* Lines 113-114.
NameLower(p) == Lower(info[p].name)

ExePath(p) == Lower(info[p].exe)

\* Lines 136-154.
IsAntigravity(p) ==
  IF system = "Darwin"
    THEN Contains(S_antigravity_app, ExePath(p))
  ELSE IF system = "Windows"
    THEN \/ NameLower(p) \in {S_antigravity_exe, S_antigravity}
         \/ /\ Contains(S_antigravity, ExePath(p))
            /\ ~ Contains(S_manager, NameLower(p))
  ELSE \/ NameLower(p) = S_antigravity
       \/ Contains(S_seg, ExePath(p))
       \/ EndsWith(ExePath(p), S_end)

\* Mutant of Excluded: the comparison with os.getpid() is left out.
ExcludedNoPidCheck(p) ==
  ExePath(p) # NoneStr /\ Contains(CurrentDir, ExePath(p))

\* Lines 116-131: the two exclusions applied before the predicate.
Excluded(p) ==
  \/ p = SelfPid
  \/ ExePath(p) # NoneStr /\ Contains(CurrentDir, ExePath(p))

\* Lines 110-161: psutil.process_iter yields the running processes by pid.
RECURSIVE ScanFrom(_)
ScanFrom(p) ==
  IF p > MaxPid THEN << >>
  ELSE IF status[p] = "running" /\ ~ Excluded(p) /\ IsAntigravity(p)
    THEN <<p>> \o ScanFrom(p + 1)
  ELSE ScanFrom(p + 1)

ScanTargets == ScanFrom(1)

Range(s) == { s[k] : k \in 1..Len(s) }

RunningIn(s) == { p \in Range(s) : status[p] = "running" }

TimedOut == start_time >= 0 /\ now - start_time >= timeout

\* The answer of proc.is_running() for pid p, recorded.
Observe(p) ==
  [observed EXCEPT ![p] = IF status[p] = "running" THEN "running" ELSE "gone"]

\* ------------------------------------------------- db_manager: the data
\* Lines 11-14.
KEYS_TO_BACKUP ==
  << "antigravityAuthStatus", "jetskiStateSync.agentManagerInitState" >>

Canonical == Range(KEYS_TO_BACKUP)

\* A row of ItemTable whose key is not in the list.
OtherKey == "telemetry.machineId"

\* Lines 69-70.
MetaKeys == {"account_email", "backup_time"}

\* A key of a document that backup_account did not write.
ExtraDocKey == "note"

AllKeys == Canonical \cup {OtherKey, ExtraDocKey} \cup MetaKeys

\* Values of ItemTable rows (TEXT): plain, with characters JSON escapes, and
\* one that reads as a JSON literal.
V_plain == <<"a">>
V_json == <<"{", "\"", "e", "\"", "}">>
V_esc == <<"\\", "\n">>
V_null == <<"n", "u", "l", "l">>
V_other == <<"m">>

EmptyFcn == [k \in {} |-> << >>]

Cell(rows, k) == IF k \in DOMAIN rows THEN << rows[k] >> ELSE << >>

\* INSERT OR REPLACE INTO ItemTable (key, value): key is unique.
Upsert(rows, key, value) ==
  [k \in DOMAIN rows \cup {key} |-> IF k = key THEN value ELSE rows[k]]

RowsFull ==
  [k \in Canonical \cup {OtherKey} |->
     IF k = KEYS_TO_BACKUP[1] THEN V_json
     ELSE IF k = KEYS_TO_BACKUP[2] THEN V_esc
     ELSE V_other]

RowsChanged ==
  [k \in Canonical \cup {OtherKey} |->
     IF k = KEYS_TO_BACKUP[1] THEN V_null
     ELSE IF k = KEYS_TO_BACKUP[2] THEN V_plain
     ELSE V_other]

RowsPartial ==
  [k \in {KEYS_TO_BACKUP[2], OtherKey} |->
     IF k = OtherKey THEN V_other ELSE V_plain]

Contents == {RowsFull, RowsChanged, RowsPartial, EmptyFcn}

\* Python values as json.load returns them.
PyStr(s) == [t |-> "str", v |-> s]
PyNone == [t |-> "none", v |-> << >>]
PyInt(digits) == [t |-> "int", v |-> digits]

\* json's string escapes, with ensure_ascii=False: only the quote, the
\* backslash and control characters are escaped.
RECURSIVE Escape(_)
Escape(s) ==
  IF s = << >> THEN << >>
  ELSE LET c == Head(s)
           e == IF c = "\"" THEN <<"\\", "\"">>
                ELSE IF c = "\\" THEN <<"\\", "\\">>
                ELSE IF c = "\n" THEN <<"\\", "n">>
                ELSE << c >>
       IN  e \o Escape(Tail(s))

RECURSIVE Unescape(_)
Unescape(s) ==
  IF s = << >> THEN << >>
  ELSE IF Head(s) = "\\" /\ Len(s) >= 2
    THEN << IF s[2] = "n" THEN "\n" ELSE s[2] >> \o Unescape(Tail(Tail(s)))
  ELSE << Head(s) >> \o Unescape(Tail(s))

\* json.dumps / json.dump of one value.
JsonDumps(pv) ==
  IF pv.t = "str" THEN <<"\"">> \o Escape(pv.v) \o <<"\"">>
  ELSE IF pv.t = "none" THEN V_null
  ELSE pv.v

\* json.load of one value.
JsonLoads(text) ==
  IF text # << >> /\ Head(text) = "\""
    THEN PyStr(Unescape(SubSeq(text, 2, Len(text) - 1)))
  ELSE IF text = V_null THEN PyNone
  ELSE PyInt(text)

\* Lines 73-74: json.dump of the mapping; line 96: json.load.
EncodeDoc(m) == [k \in DOMAIN m |-> JsonDumps(m[k])]

LoadDoc(obj) == [k \in DOMAIN obj |-> JsonLoads(obj[k])]

Emails == { <<"a", "@", "b">> }

\* datetime.now().isoformat()
IsoNow == <<"2", "0", "T", "1">>

\* Mutant of DataMap: a key without a row is written as null.
DataMapWithNulls(rows, email) ==
  [k \in Canonical \cup MetaKeys |->
     IF k = "account_email" THEN PyStr(email)
     ELSE IF k = "backup_time" THEN PyStr(IsoNow)
     ELSE IF k \in DOMAIN rows THEN PyStr(rows[k])
     ELSE PyNone]

\* Lines 54-70: data_map, the listed keys that have a row, then the two
\* metadata fields.
DataMap(rows, email) ==
  [k \in (Canonical \cap DOMAIN rows) \cup MetaKeys |->
     IF k = "account_email" THEN PyStr(email)
     ELSE IF k = "backup_time" THEN PyStr(IsoNow)
     ELSE PyStr(rows[k])]

\* Mutant of StoredValue: every value goes through json.dumps.
StoredValueAlwaysDumps(pv) == JsonDumps(pv)

\* Lines 140-144: a value that is not a str is stored as its JSON text.
StoredValue(pv) == IF pv.t = "str" THEN pv.v ELSE JsonDumps(pv)

\* The file at backup_file_path.
DocMissing == [kind |-> "missing", obj |-> EmptyFcn]
DocCorrupt == [kind |-> "corrupt", obj |-> EmptyFcn]

\* Documents this program did not write: a null and a number among the
\* values, a listed key left out, a key of their own.
DocEdited ==
  [kind |-> "ok",
   obj |-> [k \in {KEYS_TO_BACKUP[1], ExtraDocKey, "account_email"} |->
              IF k = KEYS_TO_BACKUP[1] THEN V_null
              ELSE JsonDumps(PyStr(V_plain))]]

DocNumber ==
  [kind |-> "ok",
   obj |-> [k \in Canonical \cup MetaKeys |->
              IF k = KEYS_TO_BACKUP[1] THEN <<"7">>
              ELSE JsonDumps(PyStr(V_json))]]

DocSamples == {DocMissing, DocCorrupt, DocEdited, DocNumber}

\* pathlib names as their dot-separated parts; with_suffix('.vscdb.backup')
\* replaces the last suffix, if there is one (line 116).
WithSuffix(path) ==
  (IF Len(path) > 1 THEN SubSeq(path, 1, Len(path) - 1) ELSE path)
    \o <<"vscdb", "backup">>

P_state == <<"state", "vscdb">>
P_backup == WithSuffix(P_state)

PathPool == {P_state, P_backup}

Files == PathPool \cup { WithSuffix(q) : q \in PathPool }

\* get_antigravity_db_paths(): an ordered list of distinct paths, possibly
\* empty.
DbPathLists ==
  { << >>, << P_state >>, << P_backup >>,
    << P_state, P_backup >>, << P_backup, P_state >> }

FileMissing == [exists |-> FALSE, rows |-> EmptyFcn]

FileWith(rows) == [exists |-> TRUE, rows |-> rows]

Exists(f) == f \in DOMAIN fs /\ fs[f].exists

\* The files on disk: each listed database is missing or holds one of the
\* contents; the sibling of the '.vscdb.backup' file is missing or present.
FileSystems ==
  { g \in [Files -> {FileMissing} \cup { FileWith(c) : c \in Contents }] :
      g[WithSuffix(P_backup)] \in {FileMissing, FileWith(RowsChanged)} }

\* What the application may leave in the listed keys between two calls.
MutateContents == {RowsChanged, RowsPartial}

\* -------------------------------------------------------------------- Init
\* No call of start_antigravity has been made.
StartIdle ==
  /\ s_pc = "idle"
  /\ s_stack = << >>
  /\ s_val = "None"
  /\ s_ret = "None"
  /\ s_repeated = FALSE
  /\ s_inv = << >>
  /\ s_openUri = 0
  /\ s_dispatched = 0

\* No call of close_antigravity has been made.
CloseIdle ==
  /\ c_pc = "idle"
  /\ timeout = 0
  /\ force_kill = TRUE
  /\ target_processes = << >>
  /\ still_running = UNBOUND
  /\ final_check = << >>
  /\ i = 1
  /\ now = 0
  /\ start_time = -1
  /\ ret = "None"
  /\ repeated = FALSE
  /\ gracefulOutcome = "none"
  /\ phases = << >>
  /\ terminated = {}
  /\ killed = {}
  /\ touched = {}
  /\ polls = 0
  /\ lateExit = {}
  /\ aliveAtTimeout = {}
  /\ spawned = {}
  /\ internalError = FALSE
  /\ observed = [p \in Pids |-> "none"]

\* No call of backup_account or restore_account has been made.
DbCallsIdle ==
  /\ b_ret = "None"
  /\ d_pc = "idle"
  /\ backup_data = EmptyFcn
  /\ r_idx = 1
  /\ r_sibling = FALSE
  /\ r_key = 1
  /\ txn = EmptyFcn
  /\ r_done = {}
  /\ success_count = 0
  /\ r_ret = "None"
  /\ snap = EmptyFcn
  /\ fromBackup = FALSE
  /\ pre = fs
  /\ attempted = {}
  /\ committed = {}
  /\ failed = {}
  /\ lost = {}

\* The databases play no part in the process functions.
DbIdle ==
  /\ db_paths = << >>
  /\ fs = [f \in Files |-> FileMissing]
  /\ doc = DocMissing
  /\ DbCallsIdle

Init ==
  /\ system \in Platforms
  /\ info \in Tables
  /\ status \in { f \in [Pids -> {"unborn", "running"}] : f[SelfPid] = "running" }
  /\ CloseIdle
  /\ StartIdle
  /\ DbIdle

\* ------------------------------------------------------ close_antigravity
Enter(ph) ==
  IF phases # << >> /\ phases[Len(phases)] = ph THEN phases ELSE Append(phases, ph)

GracefulOutcomes == {"rc0", "nonzero", "timeout", "exception"}

\* Lines 52-68: a call starts; the arguments are the caller's.
Call(t, f) ==
  /\ c_pc \in {"idle", "done"}
  /\ repeated' = (c_pc = "done")
  /\ timeout' = t
  /\ force_kill' = f
  /\ c_pc' = "graceful"
  /\ target_processes' = << >>
  /\ still_running' = UNBOUND
  /\ final_check' = << >>
  /\ i' = 1
  /\ now' = 0
  /\ start_time' = -1
  /\ ret' = "None"
  /\ gracefulOutcome' = "none"
  /\ phases' = << >>
  /\ terminated' = {}
  /\ killed' = {}
  /\ touched' = {}
  /\ polls' = 0
  /\ lateExit' = {}
  /\ aliveAtTimeout' = {}
  /\ spawned' = {}
  /\ internalError' = FALSE
  /\ observed' = [p \in Pids |-> "none"]
  /\ UNCHANGED << startVars, dbVars >>
  /\ UNCHANGED << system, info, status >>

\* Mutant of Graceful: a failing helper (timeout or launch exception)
\* reaches the outer handler and ends the call with False.
GracefulAborts ==
  /\ c_pc = "graceful"
  /\ IF system \in {"Darwin", "Windows"}
       THEN \E o \in GracefulOutcomes :
              /\ gracefulOutcome' = o
              /\ now' = IF o = "rc0" THEN now + GracefulSettleTicks ELSE now
              /\ phases' = Enter("GracefulPlatformRequest")
              /\ IF o \in {"timeout", "exception"}
                   THEN /\ c_pc' = "done"
                        /\ ret' = "False"
                        /\ internalError' = TRUE
                   ELSE /\ c_pc' = "scan"
                        /\ UNCHANGED << ret, internalError >>
       ELSE /\ gracefulOutcome' = "skipped"
            /\ c_pc' = "scan"
            /\ UNCHANGED << now, phases, ret, internalError >>
  /\ UNCHANGED << startVars, dbVars >>
  /\ UNCHANGED << observed, system, info, status, timeout, force_kill, target_processes,
                  still_running, final_check, i, start_time, repeated,
                  terminated, killed, touched, polls, lateExit, aliveAtTimeout,
                  spawned >>

\* Mutant of Graceful: the termination set is scanned first and the
\* platform request is issued after it.
GracefulScanFirst ==
  /\ c_pc = "graceful"
  /\ target_processes' = ScanTargets
  /\ IF system \in {"Darwin", "Windows"}
       THEN \E o \in GracefulOutcomes :
              /\ gracefulOutcome' = o
              /\ now' = IF o = "rc0" THEN now + GracefulSettleTicks ELSE now
              /\ phases' = << "Scanning", "GracefulPlatformRequest" >>
       ELSE /\ gracefulOutcome' = "skipped"
            /\ now' = now
            /\ phases' = << "Scanning" >>
  /\ IF ScanTargets = << >>
       THEN /\ ret' = "True"
            /\ c_pc' = "done"
       ELSE /\ ret' = ret
            /\ c_pc' = "terminate"
  /\ UNCHANGED << startVars, dbVars >>
  /\ UNCHANGED << observed, system, info, status, timeout, force_kill, still_running,
                  final_check, i, start_time, repeated, terminated, killed,
                  touched, polls, lateExit, aliveAtTimeout, spawned,
                  internalError >>

\* Lines 70-107: the platform's graceful-quit request. Every failure of the
\* helper is caught by the inner `except Exception`; only a zero exit code
\* is followed by time.sleep(2).
Graceful ==
  /\ c_pc = "graceful"
  /\ IF system \in {"Darwin", "Windows"}
       THEN \E o \in GracefulOutcomes :
              /\ gracefulOutcome' = o
              /\ now' = IF o = "rc0" THEN now + GracefulSettleTicks ELSE now
              /\ phases' = Enter("GracefulPlatformRequest")
       ELSE /\ gracefulOutcome' = "skipped"
            /\ now' = now
            /\ phases' = phases
  /\ c_pc' = "scan"
  /\ UNCHANGED << startVars, dbVars >>
  /\ UNCHANGED << observed, system, info, status, timeout, force_kill, target_processes,
                  still_running, final_check, i, start_time, ret, repeated,
                  terminated, killed, touched, polls, lateExit, aliveAtTimeout,
                  spawned, internalError >>

\* Mutant of Scan: the early return on an empty set is left out.
ScanNoEarlyReturn ==
  /\ c_pc = "scan"
  /\ target_processes' = ScanTargets
  /\ phases' = Enter("Scanning")
  /\ c_pc' = "terminate"
  /\ i' = 1
  /\ UNCHANGED << startVars, dbVars >>
  /\ UNCHANGED << observed, system, info, status, timeout, force_kill, still_running,
                  final_check, now, start_time, ret, repeated, gracefulOutcome,
                  terminated, killed, touched, polls, lateExit, aliveAtTimeout,
                  spawned, internalError >>

\* Lines 109-167: the scan that fixes the termination set, and the early
\* return when it is empty.
Scan ==
  /\ c_pc = "scan"
  /\ target_processes' = ScanTargets
  /\ phases' = Enter("Scanning")
  /\ IF ScanTargets = << >>
       THEN /\ ret' = "True"
            /\ c_pc' = "done"
       ELSE /\ ret' = ret
            /\ c_pc' = "terminate"
  /\ i' = 1
  /\ UNCHANGED << startVars, dbVars >>
  /\ UNCHANGED << observed, system, info, status, timeout, force_kill, still_running,
                  final_check, now, start_time, repeated, gracefulOutcome,
                  terminated, killed, touched, polls, lateExit, aliveAtTimeout,
                  spawned, internalError >>

\* Lines 169-178: one iteration of the terminate loop; every exception of
\* terminate() is swallowed per process. The loop ends after the last one.
TerminateStep ==
  /\ c_pc = "terminate"
  /\ LET has == i <= Len(target_processes)
         p == target_processes[i]
     IN  /\ touched' = IF has THEN touched \cup {p} ELSE touched
         /\ terminated' = IF has /\ status[p] = "running"
                            THEN terminated \cup {p} ELSE terminated
  /\ IF i >= Len(target_processes)
       THEN /\ c_pc' = "wait_start"
            /\ i' = 1
       ELSE /\ c_pc' = c_pc
            /\ i' = i + 1
  /\ phases' = Enter("SignalTerminate")
  /\ UNCHANGED << startVars, dbVars >>
  /\ UNCHANGED << observed, system, info, status, timeout, force_kill, target_processes,
                  still_running, final_check, now, start_time, ret, repeated,
                  gracefulOutcome, killed, polls, lateExit, aliveAtTimeout,
                  spawned, internalError >>

\* Mutant of LoopTest: the loop is entered once more when the elapsed time
\* equals the timeout.
LoopTestInclusive(t, st) ==
  IF t - st <= timeout
    THEN /\ still_running' = << >>
         /\ c_pc' = "poll"
         /\ aliveAtTimeout' = aliveAtTimeout
    ELSE /\ still_running' = still_running
         /\ c_pc' = "after_loop"
         /\ aliveAtTimeout' = RunningIn(target_processes)

\* Lines 183-184: the while condition at clock t; a pass starts with an
\* empty list.
LoopTest(t, st) ==
  IF t - st < timeout
    THEN /\ still_running' = << >>
         /\ c_pc' = "poll"
         /\ aliveAtTimeout' = aliveAtTimeout
    ELSE /\ still_running' = still_running
         /\ c_pc' = "after_loop"
         /\ aliveAtTimeout' = RunningIn(target_processes)

\* Lines 180-184: the wait loop's clock starts and the condition is
\* evaluated for the first time.
WaitStart ==
  /\ c_pc = "wait_start"
  /\ start_time' = now
  /\ phases' = Enter("WaitLoop")
  /\ LoopTest(now, now)
  /\ UNCHANGED << startVars, dbVars >>
  /\ UNCHANGED << observed, system, info, status, timeout, force_kill, target_processes,
                  final_check, i, now, ret, repeated, gracefulOutcome, terminated,
                  killed, touched, polls, lateExit, spawned, internalError >>

\* Mutant of PollStep: after a poll that found a process running the loop
\* is left at once, without waiting for the timeout.
PollStepNoWait ==
  /\ c_pc = "poll"
  /\ LET has == i <= Len(target_processes)
         p == target_processes[i]
         sr == IF has /\ status[p] = "running"
                 THEN Append(still_running, p) ELSE still_running
     IN  /\ touched' = IF has THEN touched \cup {p} ELSE touched
         /\ still_running' = sr
         /\ observed' = IF has THEN Observe(p) ELSE observed
         /\ IF i >= Len(target_processes)
              THEN /\ polls' = polls + 1
                   /\ i' = 1
                   /\ IF sr = << >>
                        THEN /\ ret' = "True"
                             /\ c_pc' = "done"
                        ELSE /\ ret' = ret
                             /\ c_pc' = "after_loop"
              ELSE /\ i' = i + 1
                   /\ UNCHANGED << c_pc, ret, polls >>
  /\ UNCHANGED << startVars, dbVars >>
  /\ UNCHANGED << system, info, status, timeout, force_kill, target_processes,
                  final_check, now, start_time, repeated, gracefulOutcome, phases,
                  terminated, killed, lateExit, aliveAtTimeout, spawned,
                  internalError >>

\* Lines 185-194: one is_running() of the poll; after the last one, the
\* early success return or the sleep.
PollStep ==
  /\ c_pc = "poll"
  /\ LET has == i <= Len(target_processes)
         p == target_processes[i]
         sr == IF has /\ status[p] = "running"
                 THEN Append(still_running, p) ELSE still_running
     IN  /\ touched' = IF has THEN touched \cup {p} ELSE touched
         /\ still_running' = sr
         /\ observed' = IF has THEN Observe(p) ELSE observed
         /\ IF i >= Len(target_processes)
              THEN /\ polls' = polls + 1
                   /\ i' = 1
                   /\ IF sr = << >>
                        THEN /\ ret' = "True"
                             /\ c_pc' = "done"
                        ELSE /\ ret' = ret
                             /\ c_pc' = "sleep"
              ELSE /\ i' = i + 1
                   /\ UNCHANGED << c_pc, ret, polls >>
  /\ UNCHANGED << startVars, dbVars >>
  /\ UNCHANGED << system, info, status, timeout, force_kill, target_processes,
                  final_check, now, start_time, repeated, gracefulOutcome, phases,
                  terminated, killed, lateExit, aliveAtTimeout, spawned,
                  internalError >>

\* Mutant of Sleep: the process table is scanned again before each pass.
SleepRescan ==
  /\ c_pc = "sleep"
  /\ now' = now + PollTicks
  /\ target_processes' = ScanTargets
  /\ LoopTest(now + PollTicks, start_time)
  /\ UNCHANGED << startVars, dbVars >>
  /\ UNCHANGED << observed, system, info, status, timeout, force_kill,
                  final_check, i, start_time, ret, repeated, gracefulOutcome,
                  phases, terminated, killed, touched, polls, lateExit, spawned,
                  internalError >>

\* Lines 196 and 183: time.sleep(0.5), then the while condition again.
Sleep ==
  /\ c_pc = "sleep"
  /\ now' = now + PollTicks
  /\ LoopTest(now + PollTicks, start_time)
  /\ UNCHANGED << startVars, dbVars >>
  /\ UNCHANGED << observed, system, info, status, timeout, force_kill, target_processes,
                  final_check, i, start_time, ret, repeated, gracefulOutcome,
                  phases, terminated, killed, touched, polls, lateExit, spawned,
                  internalError >>

\* Lines 198-204 and 229-237: what follows the wait loop. Reading
\* still_running before any pass assigned it raises UnboundLocalError, which
\* the outer `except Exception` turns into False.
AfterLoop ==
  /\ c_pc = "after_loop"
  /\ IF still_running = UNBOUND
       THEN /\ internalError' = TRUE
            /\ ret' = "False"
            /\ c_pc' = "done"
            /\ phases' = phases
       ELSE IF still_running # << >>
         THEN IF force_kill
                THEN /\ c_pc' = "kill"
                     /\ phases' = Enter("SignalKill")
                     /\ UNCHANGED << ret, internalError >>
                ELSE /\ ret' = "False"
                     /\ c_pc' = "done"
                     /\ UNCHANGED << phases, internalError >>
       ELSE /\ ret' = "True"
            /\ c_pc' = "done"
            /\ UNCHANGED << phases, internalError >>
  /\ i' = 1
  /\ UNCHANGED << startVars, dbVars >>
  /\ UNCHANGED << observed, system, info, status, timeout, force_kill, target_processes,
                  still_running, final_check, now, start_time, repeated,
                  gracefulOutcome, terminated, killed, touched, polls, lateExit,
                  aliveAtTimeout, spawned >>

\* Mutant of KillStep: the is_running() guard of kill() is inverted.
KillStepInverted ==
  /\ c_pc = "kill"
  /\ LET has == i <= Len(still_running)
         p == still_running[i]
     IN  /\ touched' = IF has THEN touched \cup {p} ELSE touched
         /\ observed' = IF has THEN Observe(p) ELSE observed
         /\ killed' = IF has /\ status[p] # "running"
                        THEN killed \cup {p} ELSE killed
  /\ IF i >= Len(still_running)
       THEN /\ c_pc' = "final_sleep"
            /\ i' = 1
       ELSE /\ c_pc' = c_pc
            /\ i' = i + 1
  /\ UNCHANGED << startVars, dbVars >>
  /\ UNCHANGED << system, info, status, timeout, force_kill, target_processes,
                  still_running, final_check, now, start_time, ret, repeated,
                  gracefulOutcome, phases, terminated, polls, lateExit,
                  aliveAtTimeout, spawned, internalError >>

\* Lines 205-210: one iteration of the kill loop over the last poll's list.
KillStep ==
  /\ c_pc = "kill"
  /\ LET has == i <= Len(still_running)
         p == still_running[i]
     IN  /\ touched' = IF has THEN touched \cup {p} ELSE touched
         /\ observed' = IF has THEN Observe(p) ELSE observed
         /\ killed' = IF has /\ status[p] = "running"
                        THEN killed \cup {p} ELSE killed
  /\ IF i >= Len(still_running)
       THEN /\ c_pc' = "final_sleep"
            /\ i' = 1
       ELSE /\ c_pc' = c_pc
            /\ i' = i + 1
  /\ UNCHANGED << startVars, dbVars >>
  /\ UNCHANGED << system, info, status, timeout, force_kill, target_processes,
                  still_running, final_check, now, start_time, ret, repeated,
                  gracefulOutcome, phases, terminated, polls, lateExit,
                  aliveAtTimeout, spawned, internalError >>

\* Lines 212-214: time.sleep(1), then the final list starts empty.
FinalSleep ==
  /\ c_pc = "final_sleep"
  /\ now' = now + FinalSettleTicks
  /\ final_check' = << >>
  /\ phases' = Enter("FinalCheck")
  /\ c_pc' = "final"
  /\ UNCHANGED << startVars, dbVars >>
  /\ UNCHANGED << observed, system, info, status, timeout, force_kill, target_processes,
                  still_running, i, start_time, ret, repeated, gracefulOutcome,
                  terminated, killed, touched, polls, lateExit, aliveAtTimeout,
                  spawned, internalError >>

\* Mutant of FinalStep: the final verdict is given without asking
\* is_running() again.
FinalStepNoCheck ==
  /\ c_pc = "final"
  /\ LET has == i <= Len(still_running)
         p == still_running[i]
     IN  /\ touched' = IF has THEN touched \cup {p} ELSE touched
         /\ final_check' = final_check
         /\ observed' = observed
         /\ IF i >= Len(still_running)
              THEN /\ ret' = "True"
                   /\ c_pc' = "done"
                   /\ i' = 1
              ELSE /\ i' = i + 1
                   /\ UNCHANGED << c_pc, ret >>
  /\ UNCHANGED << startVars, dbVars >>
  /\ UNCHANGED << system, info, status, timeout, force_kill, target_processes,
                  still_running, now, start_time, repeated, gracefulOutcome, phases,
                  terminated, killed, polls, lateExit, aliveAtTimeout, spawned,
                  internalError >>

\* Lines 215-228: one is_running() of the final check; after the last one
\* the verdict, whose error message names final_check.
FinalStep ==
  /\ c_pc = "final"
  /\ LET has == i <= Len(still_running)
         p == still_running[i]
         fc == IF has /\ status[p] = "running"
                 THEN Append(final_check, p) ELSE final_check
     IN  /\ touched' = IF has THEN touched \cup {p} ELSE touched
         /\ final_check' = fc
         /\ observed' = IF has THEN Observe(p) ELSE observed
         /\ IF i >= Len(still_running)
              THEN /\ ret' = IF fc = << >> THEN "True" ELSE "False"
                   /\ c_pc' = "done"
                   /\ i' = 1
              ELSE /\ i' = i + 1
                   /\ UNCHANGED << c_pc, ret >>
  /\ UNCHANGED << startVars, dbVars >>
  /\ UNCHANGED << system, info, status, timeout, force_kill, target_processes,
                  still_running, now, start_time, repeated, gracefulOutcome, phases,
                  terminated, killed, polls, lateExit, aliveAtTimeout, spawned,
                  internalError >>

\* The operating system: a process other than the caller exits while the
\* call is in progress (on its own, or because of a signal it received).
ProcExit(p) ==
  /\ c_pc \notin {"idle", "graceful", "done"}
  /\ p # SelfPid
  /\ status[p] = "running"
  /\ status' = [status EXCEPT ![p] = "exited"]
  /\ lateExit' = IF TimedOut THEN lateExit \cup {p} ELSE lateExit
  /\ UNCHANGED << startVars, dbVars >>
  /\ UNCHANGED << observed, system, info, c_pc, timeout, force_kill, target_processes,
                  still_running, final_check, i, now, start_time, ret, repeated,
                  gracefulOutcome, phases, terminated, killed, touched, polls,
                  aliveAtTimeout, spawned, internalError >>

\* The operating system: a new process starts after the scan of the call in
\* progress (one started earlier is a process the scan finds running).
Spawn(p) ==
  /\ c_pc \notin {"idle", "graceful", "scan", "done"}
  /\ status[p] = "unborn"
  /\ status' = [status EXCEPT ![p] = "running"]
  /\ spawned' = spawned \cup {p}
  /\ UNCHANGED << startVars, dbVars >>
  /\ UNCHANGED << observed, system, info, c_pc, timeout, force_kill, target_processes,
                  still_running, final_check, i, now, start_time, ret, repeated,
                  gracefulOutcome, phases, terminated, killed, touched, polls,
                  lateExit, aliveAtTimeout, internalError >>

NextClose ==
  \/ \E t \in Timeouts, f \in BOOLEAN : Call(t, f)
  \/ Graceful
  \/ Scan
  \/ TerminateStep
  \/ WaitStart
  \/ PollStep
  \/ Sleep
  \/ AfterLoop
  \/ KillStep
  \/ FinalSleep
  \/ FinalStep
  \/ \E p \in Pids : ProcExit(p)
  \/ \E p \in Pids : Spawn(p)

Spec == Init /\ [][NextClose]_vars

\* The steps of close_antigravity after its scan. The function runs
\* synchronously on its caller's thread: a step that can be taken is taken.
CloseStep ==
  \/ Graceful
  \/ TerminateStep
  \/ WaitStart
  \/ PollStep
  \/ Sleep
  \/ AfterLoop
  \/ KillStep
  \/ FinalSleep
  \/ FinalStep

\* Weak fairness of Scan, written out: Scan is enabled exactly when
\* c_pc = "scan" and no other step leaves that position, so WF_vars(Scan)
\* says that the iteration over psutil.process_iter (a finite list) ends.
ScanReturns ==
  \/ []<>(c_pc # "scan")
  \/ []<><< c_pc = "scan" /\ c_pc' # "scan" >>_vars

SpecLive == Spec /\ WF_vars(CloseStep) /\ ScanReturns

\* ------------------------------------------------------ start_antigravity
UseUri == s_stack[Len(s_stack)]

\* The record of the innermost invocation, with field f set to v.
Note(f, v) ==
  [s_inv EXCEPT ![Len(s_stack)] =
     IF f = "raised" THEN [@ EXCEPT !.raised = v]
     ELSE IF f = "failed" THEN [@ EXCEPT !.failed = v]
     ELSE [@ EXCEPT !.result = v]]

NewInvocation(u) ==
  [use_uri |-> u, raised |-> FALSE, failed |-> FALSE, result |-> "None"]

\* `return v` of the innermost invocation.
Returns(v) ==
  /\ s_val' = v
  /\ s_pc' = "ret"

\* Lines 239-247: a top-level call.
StartCall(u) ==
  /\ s_pc \in {"idle", "done"}
  /\ s_repeated' = (s_pc = "done")
  /\ s_stack' = << u >>
  /\ s_inv' = << NewInvocation(u) >>
  /\ s_pc' = "entry"
  /\ s_val' = "None"
  /\ s_ret' = "None"
  /\ s_openUri' = 0
  /\ s_dispatched' = 0
  /\ UNCHANGED << closeVars, dbVars >>

\* Lines 251-260: the URI attempt; open_uri returns True or False, or raises.
OpenUri ==
  /\ s_pc = "entry"
  /\ IF UseUri
       THEN /\ s_openUri' = s_openUri + 1
            /\ \E o \in {"true", "false", "raise"} :
                 CASE o = "true" ->
                        /\ Returns("True")
                        /\ s_dispatched' = s_dispatched + 1
                        /\ s_inv' = s_inv
                   [] o = "false" ->
                        /\ s_pc' = "direct"
                        /\ UNCHANGED << s_val, s_dispatched, s_inv >>
                   [] o = "raise" ->
                        /\ s_pc' = "except"
                        /\ s_inv' = Note("raised", TRUE)
                        /\ UNCHANGED << s_val, s_dispatched >>
       ELSE /\ s_pc' = "direct"
            /\ UNCHANGED << s_val, s_dispatched, s_inv, s_openUri >>
  /\ UNCHANGED << s_stack, s_ret, s_repeated >>
  /\ UNCHANGED << closeVars, dbVars >>

\* Lines 263-290: the direct launch, by platform. On Darwin the spawn is
\* made at once; on Windows and Linux the executable path is resolved first;
\* on any other platform no branch is taken and line 290 returns True.
Direct ==
  /\ s_pc = "direct"
  /\ IF system = "Darwin"
       THEN \E o \in {"ok", "raise"} :
              IF o = "ok"
                THEN /\ Returns("True")
                     /\ s_dispatched' = s_dispatched + 1
                     /\ s_inv' = s_inv
                ELSE /\ s_pc' = "except"
                     /\ s_inv' = Note("failed", TRUE)
                     /\ UNCHANGED << s_val, s_dispatched >>
     ELSE IF system \in {"Windows", "Linux"}
       THEN \E o \in {"found", "missing", "raise"} :
              CASE o = "found" ->
                     /\ s_pc' = "popen"
                     /\ UNCHANGED << s_val, s_dispatched, s_inv >>
                [] o = "missing" ->
                     IF system = "Windows"
                       THEN /\ Returns("False")
                            /\ s_inv' = Note("failed", TRUE)
                            /\ s_dispatched' = s_dispatched
                       ELSE /\ s_pc' = "bare"
                            /\ UNCHANGED << s_val, s_dispatched, s_inv >>
                [] o = "raise" ->
                     /\ s_pc' = "except"
                     /\ s_inv' = Note("failed", TRUE)
                     /\ UNCHANGED << s_val, s_dispatched >>
     ELSE /\ Returns("True")
          /\ UNCHANGED << s_dispatched, s_inv >>
  /\ UNCHANGED << s_stack, s_ret, s_repeated, s_openUri >>
  /\ UNCHANGED << closeVars, dbVars >>

\* Lines 270 and 279: subprocess.Popen of the resolved path.
Popen ==
  /\ s_pc = "popen"
  /\ \E o \in {"ok", "raise"} :
       IF o = "ok"
         THEN /\ Returns("True")
              /\ s_dispatched' = s_dispatched + 1
              /\ s_inv' = s_inv
         ELSE /\ s_pc' = "except"
              /\ s_inv' = Note("failed", TRUE)
              /\ UNCHANGED << s_val, s_dispatched >>
  /\ UNCHANGED << s_stack, s_ret, s_repeated, s_openUri >>
  /\ UNCHANGED << closeVars, dbVars >>

\* Lines 281-287: Linux's bare-command attempt; FileNotFoundError is caught
\* in place, any other exception reaches the outer handler.
BarePopen ==
  /\ s_pc = "bare"
  /\ \E o \in {"ok", "notfound", "raise"} :
       CASE o = "ok" ->
              /\ Returns("True")
              /\ s_dispatched' = s_dispatched + 1
              /\ s_inv' = s_inv
         [] o = "notfound" ->
              /\ Returns("False")
              /\ s_inv' = Note("failed", TRUE)
              /\ s_dispatched' = s_dispatched
         [] o = "raise" ->
              /\ s_pc' = "except"
              /\ s_inv' = Note("failed", TRUE)
              /\ UNCHANGED << s_val, s_dispatched >>
  /\ UNCHANGED << s_stack, s_ret, s_repeated, s_openUri >>
  /\ UNCHANGED << closeVars, dbVars >>

\* Mutant of Except: the handler returns False without retrying.
ExceptNoRetry ==
  /\ s_pc = "except"
  /\ Returns("False")
  /\ s_inv' = Note("raised", TRUE)
  /\ UNCHANGED << s_stack, s_ret, s_repeated, s_openUri, s_dispatched >>
  /\ UNCHANGED << closeVars, dbVars >>

\* Mutant of Except: the retry passes the caller's use_uri on unchanged.
ExceptRetrySame ==
  /\ s_pc = "except"
  /\ IF UseUri
       THEN /\ Len(s_stack) < MaxDepth
            /\ s_stack' = Append(s_stack, TRUE)
            /\ s_inv' = Append(Note("raised", TRUE), NewInvocation(TRUE))
            /\ s_pc' = "entry"
            /\ s_val' = s_val
       ELSE /\ Returns("False")
            /\ s_inv' = Note("raised", TRUE)
            /\ s_stack' = s_stack
  /\ UNCHANGED << s_ret, s_repeated, s_openUri, s_dispatched >>
  /\ UNCHANGED << closeVars, dbVars >>

\* Lines 291-297: the outer handler; with use_uri set it calls
\* start_antigravity(use_uri=False), otherwise it returns False.
Except ==
  /\ s_pc = "except"
  /\ IF UseUri
       THEN /\ Len(s_stack) < MaxDepth
            /\ s_stack' = Append(s_stack, FALSE)
            /\ s_inv' = Append(Note("raised", TRUE), NewInvocation(FALSE))
            /\ s_pc' = "entry"
            /\ s_val' = s_val
       ELSE /\ Returns("False")
            /\ s_inv' = Note("raised", TRUE)
            /\ s_stack' = s_stack
  /\ UNCHANGED << s_ret, s_repeated, s_openUri, s_dispatched >>
  /\ UNCHANGED << closeVars, dbVars >>

\* The innermost invocation returns s_val: to its caller, which returns it
\* unchanged (line 296), or to the top-level caller.
Return ==
  /\ s_pc = "ret"
  /\ s_inv' = Note("result", s_val)
  /\ s_stack' = SubSeq(s_stack, 1, Len(s_stack) - 1)
  /\ IF Len(s_stack) = 1
       THEN /\ s_ret' = s_val
            /\ s_pc' = "done"
       ELSE UNCHANGED << s_ret, s_pc >>
  /\ UNCHANGED << s_val, s_repeated, s_openUri, s_dispatched >>
  /\ UNCHANGED << closeVars, dbVars >>

NextStart ==
  \/ \E u \in BOOLEAN : StartCall(u)
  \/ OpenUri
  \/ Direct
  \/ Popen
  \/ BarePopen
  \/ Except
  \/ Return

\* The launcher alone: the process table plays no part in it.
InitStart ==
  /\ system \in Platforms
  /\ info = CHOOSE t \in Tables : TRUE
  /\ status = [p \in Pids |-> "running"]
  /\ CloseIdle
  /\ StartIdle
  /\ DbIdle

SpecStart == InitStart /\ [][NextStart]_vars

\* The steps of start_antigravity itself: it runs synchronously, and every
\* helper it calls (open_uri, Popen) returns or raises.
StartStep ==
  \/ OpenUri
  \/ Direct
  \/ Popen
  \/ BarePopen
  \/ Except
  \/ Return

SpecStartLive == SpecStart /\ WF_vars(StartStep)

\* ------------------------------------------------------------ db_manager
\* What can go wrong in backup_account once the primary database exists:
\* get_db_connection returns None, the SELECT raises, open() of the
\* destination raises, json.dump raises after the file was truncated.
BackupOutcomes ==
  {"ok", "connect_fail", "query_error", "open_error", "write_error"}

\* Lines 35-86: backup_account(email, backup_file_path).
Backup(email) ==
  /\ d_pc = "idle"
  /\ \E o \in BackupOutcomes :
       LET reachable == db_paths # << >> /\ Exists(db_paths[1])
       IN  IF reachable /\ o = "ok"
             THEN /\ doc' = [kind |-> "ok",
                             obj |-> EncodeDoc(DataMap(fs[db_paths[1]].rows, email))]
                  /\ snap' = fs[db_paths[1]].rows
                  /\ fromBackup' = TRUE
                  /\ b_ret' = "True"
             ELSE /\ doc' = IF reachable /\ o = "write_error"
                              THEN DocCorrupt ELSE doc
                  /\ fromBackup' = IF reachable /\ o = "write_error"
                                     THEN FALSE ELSE fromBackup
                  /\ snap' = snap
                  /\ b_ret' = "False"
  /\ UNCHANGED << db_paths, fs, d_pc, backup_data, r_idx, r_sibling, r_key,
                  txn, r_done, success_count, r_ret, pre, attempted,
                  committed, failed, lost >>
  /\ UNCHANGED << closeVars, startVars >>

\* The application, between a backup and a restore: the listed keys of one
\* database get other values, or lose their rows.
Mutate(f, c) ==
  /\ d_pc = "idle"
  /\ fromBackup
  /\ Exists(f)
  /\ LET rows == fs[f].rows
         new == [k \in (DOMAIN rows \ Canonical) \cup (DOMAIN c \cap Canonical) |->
                   IF k \in Canonical THEN c[k] ELSE rows[k]]
     IN  /\ new # rows
         /\ fs' = [fs EXCEPT ![f].rows = new]
  /\ UNCHANGED << db_paths, doc, b_ret, d_pc, backup_data, r_idx, r_sibling,
                  r_key, txn, r_done, success_count, r_ret, snap, fromBackup,
                  pre, attempted, committed, failed, lost >>
  /\ UNCHANGED << closeVars, startVars >>

\* Lines 88-108: restore_account(backup_file_path) up to its loop.
RestoreCall ==
  /\ d_pc \in {"idle", "done"}
  /\ pre' = fs
  /\ attempted' = {}
  /\ committed' = {}
  /\ failed' = {}
  /\ lost' = {}
  /\ success_count' = 0
  /\ r_idx' = 1
  /\ r_sibling' = FALSE
  /\ r_key' = 1
  /\ txn' = EmptyFcn
  /\ r_done' = {}
  /\ IF doc.kind # "ok"
       THEN /\ backup_data' = EmptyFcn
            /\ d_pc' = "done"
            /\ r_ret' = "False"
       ELSE /\ backup_data' = LoadDoc(doc.obj)
            /\ IF db_paths = << >>
                 THEN /\ d_pc' = "done"
                      /\ r_ret' = "False"
                 ELSE /\ d_pc' = "open"
                      /\ r_ret' = "None"
  /\ UNCHANGED << db_paths, fs, doc, b_ret, snap, fromBackup >>
  /\ UNCHANGED << closeVars, startVars >>

\* The database the loop is at: db_path, or its sibling (line 116).
Candidate ==
  IF r_sibling THEN WithSuffix(db_paths[r_idx]) ELSE db_paths[r_idx]

\* Mutant of Advance: the loop is left at the first candidate that fails.
AdvanceStopOnFailure(ok) ==
  LET n == IF ok THEN success_count + 1 ELSE success_count
  IN  /\ success_count' = n
      /\ IF ~ ok
           THEN /\ d_pc' = "done"
                /\ r_ret' = IF n > 0 THEN "True" ELSE "False"
                /\ UNCHANGED << r_idx, r_sibling >>
           ELSE IF ~ r_sibling /\ Exists(WithSuffix(db_paths[r_idx]))
             THEN /\ r_sibling' = TRUE
                  /\ d_pc' = "open"
                  /\ UNCHANGED << r_idx, r_ret >>
           ELSE IF r_idx < Len(db_paths)
             THEN /\ r_idx' = r_idx + 1
                  /\ r_sibling' = FALSE
                  /\ d_pc' = "open"
                  /\ r_ret' = r_ret
           ELSE /\ d_pc' = "done"
                /\ r_ret' = IF n > 0 THEN "True" ELSE "False"
                /\ UNCHANGED << r_idx, r_sibling >>

\* Lines 110-121: _restore_single_db returned ok; the counter, then the
\* sibling if it exists, then the next listed path, then the result.
Advance(ok) ==
  LET n == IF ok THEN success_count + 1 ELSE success_count
  IN  /\ success_count' = n
      /\ IF ~ r_sibling /\ Exists(WithSuffix(db_paths[r_idx]))
           THEN /\ r_sibling' = TRUE
                /\ d_pc' = "open"
                /\ UNCHANGED << r_idx, r_ret >>
           ELSE IF r_idx < Len(db_paths)
             THEN /\ r_idx' = r_idx + 1
                  /\ r_sibling' = FALSE
                  /\ d_pc' = "open"
                  /\ r_ret' = r_ret
           ELSE /\ d_pc' = "done"
                /\ r_ret' = IF n > 0 THEN "True" ELSE "False"
                /\ UNCHANGED << r_idx, r_sibling >>

\* Lines 123-131: _restore_single_db up to its connection; a missing file
\* and a failed connection both return False.
RestoreOpen ==
  /\ d_pc = "open"
  /\ attempted' = attempted \cup {Candidate}
  /\ \E o \in {"ok", "connect_fail"} :
       IF Exists(Candidate) /\ o = "ok"
         THEN /\ txn' = fs[Candidate].rows
              /\ d_pc' = "write"
              /\ UNCHANGED << failed, success_count, r_idx, r_sibling, r_ret >>
         ELSE /\ failed' = failed \cup {Candidate}
              /\ Advance(FALSE)
              /\ txn' = txn
  /\ UNCHANGED << db_paths, fs, doc, b_ret, backup_data, r_key, r_done, snap,
                  fromBackup, pre, committed, lost >>
  /\ UNCHANGED << closeVars, startVars >>

\* Mutant of RestoreWrite: a listed key the document lacks is written too,
\* as the JSON text of None.
RestoreWriteAlways ==
  /\ d_pc = "write"
  /\ LET key == KEYS_TO_BACKUP[r_key]
         value == IF key \in DOMAIN backup_data
                    THEN StoredValue(backup_data[key]) ELSE JsonDumps(PyNone)
     IN  \E o \in {"ok", "error"} :
           IF o = "ok"
             THEN /\ txn' = Upsert(txn, key, value)
                  /\ r_done' = r_done \cup {key}
                  /\ IF r_key >= Len(KEYS_TO_BACKUP)
                       THEN /\ d_pc' = "commit"
                            /\ r_key' = 1
                       ELSE /\ d_pc' = d_pc
                            /\ r_key' = r_key + 1
                  /\ UNCHANGED << failed, lost, success_count, r_idx,
                                  r_sibling, r_ret >>
             ELSE /\ failed' = failed \cup {Candidate}
                  /\ lost' = IF r_done # {} THEN lost \cup {Candidate} ELSE lost
                  /\ txn' = EmptyFcn
                  /\ r_done' = {}
                  /\ r_key' = 1
                  /\ Advance(FALSE)
  /\ UNCHANGED << db_paths, fs, doc, b_ret, backup_data, snap, fromBackup, pre,
                  attempted, committed >>
  /\ UNCHANGED << closeVars, startVars >>

\* Mutant of RestoreWrite: every upsert is stored at once, as under
\* autocommit.
RestoreWriteAutocommit ==
  /\ d_pc = "write"
  /\ LET key == KEYS_TO_BACKUP[r_key]
     IN  \E o \in {"ok", "error"} :
           IF key \notin DOMAIN backup_data \/ o = "ok"
             THEN /\ IF key \in DOMAIN backup_data
                       THEN /\ txn' = Upsert(txn, key, StoredValue(backup_data[key]))
                            /\ fs' = [fs EXCEPT ![Candidate].rows =
                                        Upsert(txn, key, StoredValue(backup_data[key]))]
                            /\ r_done' = r_done \cup {key}
                       ELSE UNCHANGED << txn, fs, r_done >>
                  /\ IF r_key >= Len(KEYS_TO_BACKUP)
                       THEN /\ d_pc' = "commit"
                            /\ r_key' = 1
                       ELSE /\ d_pc' = d_pc
                            /\ r_key' = r_key + 1
                  /\ UNCHANGED << failed, lost, success_count, r_idx,
                                  r_sibling, r_ret >>
             ELSE /\ failed' = failed \cup {Candidate}
                  /\ lost' = IF r_done # {} THEN lost \cup {Candidate} ELSE lost
                  /\ txn' = EmptyFcn
                  /\ fs' = fs
                  /\ r_done' = {}
                  /\ r_key' = 1
                  /\ Advance(FALSE)
  /\ UNCHANGED << db_paths, doc, b_ret, backup_data, snap, fromBackup, pre,
                  attempted, committed >>
  /\ UNCHANGED << closeVars, startVars >>

\* Lines 138-147 and 154-161: one iteration of the loop over KEYS_TO_BACKUP.
\* The upserts run inside the transaction sqlite3 opens before the first of
\* them; when execute() raises, the handler returns False and the finally
\* clause closes the connection, which drops what was not committed.
RestoreWrite ==
  /\ d_pc = "write"
  /\ LET key == KEYS_TO_BACKUP[r_key]
     IN  \E o \in {"ok", "error"} :
           IF key \notin DOMAIN backup_data \/ o = "ok"
             THEN /\ IF key \in DOMAIN backup_data
                       THEN /\ txn' = Upsert(txn, key, StoredValue(backup_data[key]))
                            /\ r_done' = r_done \cup {key}
                       ELSE UNCHANGED << txn, r_done >>
                  /\ IF r_key >= Len(KEYS_TO_BACKUP)
                       THEN /\ d_pc' = "commit"
                            /\ r_key' = 1
                       ELSE /\ d_pc' = d_pc
                            /\ r_key' = r_key + 1
                  /\ UNCHANGED << failed, lost, success_count, r_idx,
                                  r_sibling, r_ret >>
             ELSE /\ failed' = failed \cup {Candidate}
                  /\ lost' = IF r_done # {} THEN lost \cup {Candidate} ELSE lost
                  /\ txn' = EmptyFcn
                  /\ r_done' = {}
                  /\ r_key' = 1
                  /\ Advance(FALSE)
  /\ UNCHANGED << db_paths, fs, doc, b_ret, backup_data, snap, fromBackup, pre,
                  attempted, committed >>
  /\ UNCHANGED << closeVars, startVars >>

\* Lines 150-161: conn.commit() stores the batch and True is returned; when
\* it raises, the connection is closed with the batch not stored.
RestoreCommit ==
  /\ d_pc = "commit"
  /\ \E o \in {"ok", "error"} :
       IF o = "ok"
         THEN /\ fs' = [fs EXCEPT ![Candidate].rows = txn]
              /\ committed' = committed \cup {Candidate}
              /\ Advance(TRUE)
              /\ UNCHANGED << failed, lost >>
         ELSE /\ failed' = failed \cup {Candidate}
              /\ lost' = IF r_done # {} THEN lost \cup {Candidate} ELSE lost
              /\ Advance(FALSE)
              /\ UNCHANGED << fs, committed >>
  /\ txn' = EmptyFcn
  /\ r_done' = {}
  /\ UNCHANGED << db_paths, doc, b_ret, backup_data, r_key, snap, fromBackup,
                  pre, attempted >>
  /\ UNCHANGED << closeVars, startVars >>

NextDb ==
  \/ \E e \in Emails : Backup(e)
  \/ \E f \in Files, c \in MutateContents : Mutate(f, c)
  \/ RestoreCall
  \/ RestoreOpen
  \/ RestoreWrite
  \/ RestoreCommit

\* The databases, the listed paths and the file at backup_file_path as the
\* functions may find them; the process functions are not running.
InitDb ==
  /\ system = "Linux"
  /\ info = CHOOSE t \in Tables : TRUE
  /\ status = [p \in Pids |-> "running"]
  /\ CloseIdle
  /\ StartIdle
  /\ db_paths \in DbPathLists
  /\ fs \in FileSystems
  /\ doc \in DocSamples
  /\ DbCallsIdle

SpecDb == InitDb /\ [][NextDb]_vars

\* ------------------------------------------------------------------ claims
Targets == Range(target_processes)

Entered(ph) == ph \in Range(phases)

\* Every member of the termination set exited before the timeout elapsed.
AllExitedInTime ==
  \A p \in Targets : status[p] = "exited" /\ p \notin lateExit

\* C1: for a positive timeout and either value of force_kill, when every
\* process of the termination set exits before the timeout has elapsed since
\* the terminate signal (the sleep after the last poll included), the call
\* returns True and kill() is called on no process.
C1_ExitInTimeSucceeds ==
  (c_pc = "done" /\ timeout > 0 /\ AllExitedInTime)
    => (ret = "True" /\ killed = {})

\* C2, as stated: with force_kill and a positive timeout, kill() is called on
\* every process of the termination set that is alive when the timeout
\* elapses.
C2_KillsAllAliveAtTimeout ==
  (c_pc = "done" /\ force_kill /\ timeout > 0) => aliveAtTimeout \subseteq killed

\* C2, amended: with force_kill and a positive timeout, kill() is called on
\* every process of the termination set still running when the kill loop
\* examines it, and on none that was not alive when the timeout elapsed; the
\* call returns True when the final check finds none running, and otherwise
\* False, the reported list holding every process still running and only
\* processes that outlived the timeout.
C2_KillPhase ==
  (force_kill /\ timeout > 0) =>
    /\ killed \subseteq aliveAtTimeout
    /\ (c_pc \in {"final_sleep", "final"} \/ (c_pc = "done" /\ Entered("SignalKill")))
         => RunningIn(target_processes) \subseteq killed
    /\ (c_pc = "done" /\ Entered("SignalKill"))
         => /\ ret = (IF final_check = << >> THEN "True" ELSE "False")
            /\ RunningIn(target_processes) \subseteq Range(final_check)
            /\ Range(final_check) \subseteq RunningIn(target_processes) \cup lateExit
            /\ Range(final_check) \subseteq aliveAtTimeout

C2_Witness ==
  /\ c_pc = "done"
  /\ force_kill
  /\ timeout > 0
  /\ killed # {}
  /\ ret = "False"
  /\ Range(final_check) = RunningIn(target_processes)
  /\ aliveAtTimeout \ killed # {}

\* C3, as stated: the scan that fixes the termination set is performed
\* before the platform graceful-quit request is issued.
C3_ScanBeforeGraceful ==
  Entered("GracefulPlatformRequest") => phases[1] = "Scanning"

PhaseOrder ==
  << "GracefulPlatformRequest", "Scanning", "SignalTerminate", "WaitLoop",
     "SignalKill", "FinalCheck" >>

\* C3, amended: the phases of a call occur in the order
\* GracefulPlatformRequest, Scanning, SignalTerminate, WaitLoop (then
\* SignalKill, FinalCheck): the platform request is issued first, where the
\* platform has one, and the scan that fixes the termination set follows it.
C3_PhaseOrder ==
  LET off == IF system \in {"Darwin", "Windows"} THEN 0 ELSE 1
  IN  /\ Len(phases) + off <= Len(PhaseOrder)
      /\ \A k \in 1..Len(phases) : phases[k] = PhaseOrder[k + off]
      /\ target_processes # << >> => Entered("Scanning")

C3_Witness ==
  /\ Len(phases) >= 4
  /\ phases[1] = "GracefulPlatformRequest"
  /\ phases[2] = "Scanning"
  /\ phases[4] = "WaitLoop"

\* C4: when the scan finds no target process, the call returns True without
\* calling terminate() or kill(), without any liveness poll and without
\* entering the wait loop, on the first call and on every later one.
C4_EmptySetNoOp ==
  (Entered("Scanning") /\ target_processes = << >>) =>
    /\ c_pc = "done"
    /\ ret = "True"
    /\ terminated = {} /\ killed = {} /\ touched = {}
    /\ polls = 0
    /\ start_time = -1
    /\ ~ Entered("SignalTerminate") /\ ~ Entered("WaitLoop")

C4_Witness ==
  /\ repeated
  /\ c_pc = "done"
  /\ Entered("Scanning")
  /\ target_processes = << >>
  /\ ret = "True"

\* C5: the caller's own pid is never in the termination set, even when its
\* entry satisfies the platform's predicate, and neither terminate() nor
\* kill() is ever called on it.
C5_SelfExcluded ==
  SelfPid \notin (Targets \cup terminated \cup killed \cup touched)

C5_Witness ==
  /\ IsAntigravity(SelfPid)
  /\ ~ Contains(CurrentDir, ExePath(SelfPid))
  /\ c_pc = "done"
  /\ terminated # {}

\* C6: once the scan has computed the termination set it does not change
\* for the rest of the call; every is_running(), terminate() and kill() is
\* on a member of it, and a process started after the scan receives none.
C6_SetFixed ==
  [][ /\ (c_pc \notin {"idle", "graceful", "scan", "done"})
          => target_processes' = target_processes
      /\ (touched' \cup terminated' \cup killed') \subseteq Range(target_processes')
      /\ spawned' \cap (touched' \cup terminated' \cup killed') = {} ]_vars

C6_Witness ==
  /\ c_pc = "done"
  /\ killed # {}
  /\ \E p \in spawned :
       /\ status[p] = "running"
       /\ IsAntigravity(p)
       /\ ~ Excluded(p)

\* C7, for positive timeouts: with force_kill disabled kill() is never
\* called, and the call returns False exactly when some process of the
\* termination set is alive at the moment the timeout elapses.
C7_NoForceVerdict ==
  (c_pc = "done" /\ ~ force_kill /\ timeout > 0) =>
    /\ killed = {}
    /\ (ret = "False") <=> (aliveAtTimeout # {})

\* C8: whatever the outcome of the platform graceful-quit request, the call
\* goes on to the scan with no result set; it never returns before the scan,
\* and an internal-error result can only come from the phases after it.
C8_GracefulNeverAborts ==
  [][ /\ (c_pc = "graceful")
          => (c_pc' = "scan" /\ ret' = "None" /\ ~ internalError')
      /\ (c_pc' = "done") => Entered("Scanning")'
      /\ internalError' => Entered("WaitLoop")' ]_vars

C8_Witness ==
  /\ c_pc = "done"
  /\ gracefulOutcome = "exception"
  /\ terminated # {}
  /\ ret = "True"

\* C9, as stated: when the direct launch fails in a call made with use_uri
\* False, the function retries exactly once with use_uri True and returns
\* that retry's result.
C9_RetryWithUri ==
  (s_pc = "done" /\ ~ s_inv[1].use_uri /\ s_inv[1].failed) =>
    /\ Len(s_inv) = 2
    /\ s_inv[2].use_uri
    /\ s_ret = s_inv[2].result

\* C9, amended: when an exception is raised in an invocation made with
\* use_uri True (by open_uri, or by the direct launch after open_uri
\* returned False), the function retries exactly once with use_uri False and
\* returns that retry's result; an invocation made with use_uri False never
\* retries, and returns False when its launch raises.
C9_RetryWithoutUri ==
  s_pc = "done" =>
    /\ Len(s_inv) <= 2
    /\ s_ret = s_inv[1].result
    /\ \A k \in 1..Len(s_inv) :
         IF s_inv[k].raised /\ s_inv[k].use_uri
           THEN /\ Len(s_inv) = k + 1
                /\ ~ s_inv[k + 1].use_uri
                /\ s_inv[k].result = s_inv[k + 1].result
           ELSE /\ Len(s_inv) = k
                /\ s_inv[k].raised => s_inv[k].result = "False"

C9_Witness ==
  /\ s_pc = "done"
  /\ Len(s_inv) = 2
  /\ s_inv[1].use_uri /\ s_inv[1].failed
  /\ s_ret = "True"

\* C10: for every use_uri and every platform, the function returns True
\* only if a launch command was dispatched in that call (open_uri returned
\* True, or a spawn completed without raising).
C10_TrueOnlyIfDispatched ==
  (s_pc = "done" /\ s_ret = "True") => s_dispatched > 0

\* C16: with timeout 0, a non-empty termination set and force_kill, the call
\* goes from the terminate phase to the forced-kill phase: kill() is called
\* on every process of the set that is still alive and the call returns True
\* when all are gone at the final check; it does not end in an internal
\* error.
C16_ZeroTimeoutEscalates ==
  (c_pc = "done" /\ timeout = 0 /\ force_kill /\ target_processes # << >>) =>
    /\ ~ internalError
    /\ Entered("SignalKill")
    /\ RunningIn(target_processes) \subseteq killed
    /\ (RunningIn(target_processes) = {}) => ret = "True"

\* C17, as stated: the wait loop performs at most timeout/0.5 liveness
\* polls.
C17_PollsWithinQuotient ==
  polls * PollTicks <= timeout

\* C17, amended: every call returns a boolean whatever the processes do; the
\* wait loop makes at most ceil(timeout/0.5) liveness polls (a timeout that
\* is no multiple of 0.5 gets the poll of its last, partial interval), it
\* does not sleep after a poll that found the set empty, and no later phase
\* loops.
C17_Terminates ==
  /\ [](polls * PollTicks < timeout + PollTicks)
  /\ [](c_pc = "sleep" => still_running # << >>)
  /\ [](c_pc = "done" => ret \in {"True", "False"})
  /\ (c_pc \notin {"idle", "done"}) ~> (c_pc = "done")

C17_Witness ==
  /\ c_pc = "done"
  /\ timeout = 3
  /\ polls = 2
  /\ ret = "False"

\* C18: whatever use_uri, the platform and the outcomes of open_uri and of
\* the spawn calls, one top-level call of start_antigravity has at most one
\* recursive invocation (two invocations in all, never more than two active),
\* calls open_uri at most once, and ends with a boolean.
C18_BoundedRetry ==
  /\ [](Len(s_stack) <= 2 /\ Len(s_inv) <= 2 /\ s_openUri <= 1)
  /\ [](s_pc = "done" => s_ret \in {"True", "False"})
  /\ (s_pc \notin {"idle", "done"}) ~> (s_pc = "done")

C18_Witness ==
  /\ s_pc = "done"
  /\ Len(s_inv) = 2
  /\ s_openUri = 1
  /\ s_ret = "False"

\* C19: when close_antigravity returns True, every process of its
\* termination set was found not running by the last is_running() asked
\* about it after the terminate loop (in a poll of the wait loop, before
\* kill(), or in the final check): it never returns True while the most
\* recent answer for a member was "running".
C19_TrueOnlyIfObservedGone ==
  (c_pc = "done" /\ ret = "True") =>
    \A p \in Targets : observed[p] = "gone"

C19_Witness ==
  /\ c_pc = "done"
  /\ ret = "True"
  /\ Entered("FinalCheck")
  /\ Len(target_processes) >= 2
  /\ \E p \in Targets : p \notin Range(still_running)

\* C20: with a positive timeout, every kill() happens in the kill loop,
\* after terminate() was applied to every running member of the termination
\* set and after the wait loop ran until the timeout elapsed, and only on a
\* process that is in the still-running list of the last poll and answers
\* is_running() at that moment.
C20_KillOnlyAfterTimeout ==
  [][ \A p \in killed' \ killed :
        timeout > 0 =>
          /\ c_pc = "kill"
          /\ Entered("SignalTerminate")
          /\ Entered("WaitLoop")
          /\ \A q \in Targets : q \in terminated \/ status[q] # "running"
          /\ polls >= 1
          /\ TimedOut
          /\ p \in Range(still_running)
          /\ observed'[p] = "running"
          /\ status[p] = "running" ]_vars

C20_Witness ==
  /\ c_pc = "done"
  /\ timeout > 0
  /\ Cardinality(killed) >= 2

\* The databases restore_account is to update: the listed paths and their
\* '.vscdb.backup' siblings, those that exist.
ExistingCandidates ==
  { f \in Range(db_paths) \cup { WithSuffix(q) : q \in Range(db_paths) } :
      Exists(f) }

\* C11: when the primary database held every listed key at the backup, a
\* restore_account of the document that backup wrote, whatever happened to
\* the listed keys in between, leaves every existing candidate whose batch
\* it committed holding, for each listed key, the value the primary database
\* had at the backup; a candidate it did not commit is one on which the
\* connection, a write or the commit failed, and holds what it held before.
C11_RoundTrip ==
  (d_pc = "done" /\ fromBackup /\ Canonical \subseteq DOMAIN snap
     /\ db_paths # << >>) =>
    \A f \in ExistingCandidates :
      /\ f \in committed =>
           \A k \in Canonical : Cell(fs[f].rows, k) = << snap[k] >>
      /\ f \notin committed => (f \in failed /\ fs[f] = pre[f])

C11_Witness ==
  /\ d_pc = "done"
  /\ fromBackup
  /\ snap = RowsFull
  /\ Cardinality(committed) >= 2
  /\ \A f \in committed :
       \E k \in Canonical : Cell(pre[f].rows, k) # << snap[k] >>

\* C12: the document a successful backup_account wrote has as keys exactly
\* the listed keys that had a row in the primary database, account_email and
\* backup_time, each listed key with the row's value: no listed key without
\* a row (not as null either) and no other key of the database.
C12_DocumentKeys ==
  fromBackup =>
    /\ doc.kind = "ok"
    /\ DOMAIN doc.obj = (Canonical \cap DOMAIN snap) \cup MetaKeys
    /\ \A k \in Canonical \cap DOMAIN snap :
         JsonLoads(doc.obj[k]) = PyStr(snap[k])

C12_Witness ==
  /\ fromBackup
  /\ b_ret = "True"
  /\ OtherKey \in DOMAIN snap
  /\ KEYS_TO_BACKUP[1] \notin DOMAIN snap
  /\ KEYS_TO_BACKUP[2] \in DOMAIN snap

\* C13: every step of restore_account leaves the set of files as it is and
\* changes, in any database, only rows whose key is listed and is a key of
\* the loaded document, to the value stored for that key; listed keys the
\* document lacks, other rows, and the document's other keys are not
\* written.
C13_RestoreFrame ==
  [][ (d_pc \in {"open", "write", "commit"}
         \/ d_pc' \in {"open", "write", "commit"}) =>
        \A f \in Files :
          /\ fs'[f].exists = fs[f].exists
          /\ DOMAIN fs'[f].rows \subseteq AllKeys
          /\ \A k \in AllKeys :
               Cell(fs'[f].rows, k) # Cell(fs[f].rows, k) =>
                 /\ k \in Canonical
                 /\ k \in DOMAIN backup_data
                 /\ Cell(fs'[f].rows, k) = << StoredValue(backup_data[k]) >> ]_vars

C13_Witness ==
  /\ d_pc = "done"
  /\ ExtraDocKey \in DOMAIN backup_data
  /\ \E f \in committed :
       /\ fs[f] # pre[f]
       /\ \E k \in Canonical : k \notin DOMAIN backup_data /\ k \in DOMAIN fs[f].rows

\* C14: with a document that loads and a non-empty list of paths,
\* restore_account returns True exactly when it committed the batch of at
\* least one candidate, and every listed path and every existing sibling
\* was handed to _restore_single_db, whatever failed before it.
C14_TrueIffCommitted ==
  (d_pc = "done" /\ doc.kind = "ok" /\ db_paths # << >>) =>
    /\ (r_ret = "True") <=> (committed # {})
    /\ r_ret \in {"True", "False"}
    /\ Range(db_paths) \subseteq attempted
    /\ \A q \in Range(db_paths) :
         Exists(WithSuffix(q)) => WithSuffix(q) \in attempted

C14_Witness ==
  /\ d_pc = "done"
  /\ r_ret = "True"
  /\ Len(db_paths) = 2
  /\ db_paths[1] \in failed \ committed
  /\ db_paths[2] \in committed

\* C15, as stated: when a write of the batch fails, the upserts executed
\* before it on that database are stored in it.
C15_PartialWritesRemain ==
  [][ (d_pc = "write" /\ d_pc' \notin {"write", "commit"}) =>
        \A k \in r_done : Cell(fs'[Candidate].rows, k) = Cell(txn, k) ]_vars

\* C15, amended: the upserts of a batch are stored by its commit only; when
\* a write of the batch fails, the database keeps the content it had before
\* the batch and does not count as restored.
C15_FailedBatchDiscarded ==
  [][ d_pc = "write" =>
        /\ fs' = fs
        /\ d_pc' \notin {"write", "commit"} =>
             /\ success_count' = success_count
             /\ Candidate \in failed' ]_vars

C15_Witness ==
  /\ d_pc = "done"
  /\ \E f \in lost \ committed :
       /\ fs[f] = pre[f]
       /\ \E k \in Canonical \cap DOMAIN backup_data :
            Cell(fs[f].rows, k) # << StoredValue(backup_data[k]) >>

====
